---------------------------- MODULE Spec2Model ----------------------------
(***************************************************************************)
(* Collection serializers of olympia.bandwagon: the Meta declarations, the *)
(* Akismet spam validator, the field validators, the unique-together       *)
(* validators and the CollectionAddon write / read paths.                  *)
(***************************************************************************)
EXTENDS Integers, Sequences, FiniteSets, TLC

VARIABLES
    meta,          \* class name -> Meta of the serializer classes defined so far
    collections,   \* Collection rows, in creation order: [slug, author]
    rows,          \* CollectionAddon rows, in creation order: [addon, collection, comments]
    tasks,         \* save_akismet_report payloads handed to the task queue
    req,           \* the call being served and its inputs
    resp           \* what that call returned or raised

vars == <<meta, collections, rows, tasks, req, resp>>

\* ------------------------------------------------------------------ bounds

MaxLen == 2          \* longest text given to validate_name / validate_slug
MaxTasks == 2        \* payloads the task queue holds before a worker takes one
MaxCollections == 3  \* Collection rows
MaxRows == 2         \* CollectionAddon rows

\* ---------------------------------------------------------------- messages

NoError == "none"
MsgSpam == "The text entered has been flagged as spam."
MsgSlugInUse == "This custom URL is already in use by another one of your collections."
MsgNameEmpty == "Name cannot be empty."
MsgNameDenied == "This name cannot be used."
MsgSlugGrammar == "The custom URL must consist of letters, numbers, underscores or hyphens."
MsgSlugDenied == "This custom URL cannot be used."
MsgAddonInCollection == "This add-on already belongs to the collection"

None == "None"

Idle == [op |-> "none"]

\* ------------------------------------------------------- Meta declarations

CollectionFields ==
    <<"id", "uuid", "url", "addon_count", "author", "description",
      "modified", "name", "slug", "public", "default_locale">>

CollectionWriteableFields ==
    <<"description", "name", "slug", "public", "default_locale">>

ToSet(t) == {t[i] : i \in DOMAIN t}

\* tuple(set(fields) - set(writeable_fields)), as a set
ReadOnlyFields(fields, writeable_fields) == ToSet(fields) \ ToSet(writeable_fields)

\* Faulty variant: the unique-together check names the slug alone.
CollectionValidatorsSlugOnly ==
    <<[kind |-> "UniqueTogether", fields |-> {"slug"},
       message |-> MsgSlugInUse],
      [kind |-> "Akismet", fields |-> {"name", "description"},
       message |-> MsgSpam]>>

CollectionValidators ==
    <<[kind |-> "UniqueTogether", fields |-> {"slug", "author"},
       message |-> MsgSlugInUse],
      [kind |-> "Akismet", fields |-> {"name", "description"},
       message |-> MsgSpam]>>

CollectionMeta ==
    [fields |-> CollectionFields,
     writeable_fields |-> CollectionWriteableFields,
     read_only_fields |-> ReadOnlyFields(CollectionFields, CollectionWriteableFields),
     validators |-> CollectionValidators]

CollectionAddonFields == <<"addon", "notes", "collection">>

CollectionAddonWriteableFields == <<"notes">>

\* Faulty variant: no validator is declared.
CollectionAddonValidatorsNone == <<>>

CollectionAddonValidators ==
    <<[kind |-> "UniqueTogether", fields |-> {"addon", "collection"},
       message |-> MsgAddonInCollection]>>

CollectionAddonMeta ==
    [fields |-> CollectionAddonFields,
     writeable_fields |-> CollectionAddonWriteableFields,
     read_only_fields |->
         ReadOnlyFields(CollectionAddonFields, CollectionAddonWriteableFields),
     validators |-> CollectionAddonValidators]

\* Faulty variant: the subclass sets fields alone and inherits read_only_fields.
CollectionWithAddonsMetaInherited(base) ==
    [base EXCEPT !.fields = base.fields \o <<"addons">>]

\* class Meta(CollectionSerializer.Meta): the attributes not set in the body
\* are the base Meta's.
CollectionWithAddonsMeta(base) ==
    [base EXCEPT
        !.fields = base.fields \o <<"addons">>,
        !.read_only_fields =
            ReadOnlyFields(base.fields \o <<"addons">>, base.writeable_fields)]

\* The class statements of the module run top to bottom when it is imported.
DefineCollectionSerializer ==
    /\ DOMAIN meta = {}
    /\ meta' = [c \in {"CollectionSerializer"} |-> CollectionMeta]
    /\ UNCHANGED <<collections, rows, tasks, req, resp>>

DefineCollectionAddonSerializer ==
    /\ DOMAIN meta = {"CollectionSerializer"}
    /\ meta' = [c \in DOMAIN meta \cup {"CollectionAddonSerializer"} |->
                   IF c \in DOMAIN meta THEN meta[c] ELSE CollectionAddonMeta]
    /\ UNCHANGED <<collections, rows, tasks, req, resp>>

DefineCollectionWithAddonsSerializer ==
    /\ DOMAIN meta = {"CollectionSerializer", "CollectionAddonSerializer"}
    /\ meta' = [c \in DOMAIN meta \cup {"CollectionWithAddonsSerializer"} |->
                   IF c \in DOMAIN meta THEN meta[c]
                   ELSE CollectionWithAddonsMeta(meta["CollectionSerializer"])]
    /\ UNCHANGED <<collections, rows, tasks, req, resp>>

Imported ==
    DOMAIN meta = {"CollectionSerializer", "CollectionAddonSerializer",
                   "CollectionWithAddonsSerializer"}

Validator(cls, kind) ==
    LET vs == meta[cls].validators
    IN  vs[CHOOSE i \in DOMAIN vs : vs[i].kind = kind]

\* ------------------------------------------------- the Akismet validator

AttrFields == {"name", "description", "slug"}
AttrValues == {"", "text"}
ReportProperties == <<"name", "description">>

\* every dict over a subset of the keys
Dicts(keys, values) == UNION {[ks -> values] : ks \in SUBSET keys}

\* One report per property of data that has content.
GetCollectionAkismetReports(data) ==
    SelectSeq(ReportProperties, LAMBDA p : p \in DOMAIN data /\ data[p] # "")

\* any(report.comment_check() for report in reports) stops at the first report
\* that answers spam: the index of that report, 0 when none does.
FirstSpam(reports, spam) ==
    IF \E i \in DOMAIN reports : reports[i] \in spam
    THEN CHOOSE i \in DOMAIN reports :
             /\ reports[i] \in spam
             /\ \A j \in 1..(i - 1) : reports[j] \notin spam
    ELSE 0

NotCalled == [data |-> <<>>, called |-> FALSE, reports |-> <<>>,
              checked |-> <<>>, queue |-> <<>>, err |-> NoError]

\* Faulty variant of the validator: it sends the reports to the task before it
\* looks at the switch.
AkismetCallQueueFirst(fields, attrs, spam, raise_if_spam) ==
    LET data == [p \in DOMAIN attrs \cap fields |-> attrs[p]]
        reports == GetCollectionAkismetReports(data)
        n == FirstSpam(reports, spam)
    IN  IF DOMAIN data = {} THEN NotCalled
        ELSE [data |-> data, called |-> TRUE, reports |-> reports,
              checked |-> IF n > 0 THEN SubSeq(reports, 1, n) ELSE reports,
              queue |-> IF n > 0 THEN <<reports>> ELSE <<>>,
              err |-> IF n > 0 /\ raise_if_spam THEN MsgSpam ELSE NoError]

\* Faulty variant: it raises whenever a report is flagged, switch or not.
AkismetCallAlwaysRaise(fields, attrs, spam, raise_if_spam) ==
    LET data == [p \in DOMAIN attrs \cap fields |-> attrs[p]]
        reports == GetCollectionAkismetReports(data)
        n == FirstSpam(reports, spam)
    IN  IF DOMAIN data = {} THEN NotCalled
        ELSE [data |-> data, called |-> TRUE, reports |-> reports,
              checked |-> IF n > 0 THEN SubSeq(reports, 1, n) ELSE reports,
              queue |-> IF n > 0 /\ raise_if_spam THEN <<reports>> ELSE <<>>,
              err |-> IF n > 0 THEN MsgSpam ELSE NoError]

\* Faulty variant: it hands every attr to the spam check.
AkismetCallAllAttrs(fields, attrs, spam, raise_if_spam) ==
    LET data == attrs
        reports == GetCollectionAkismetReports(data)
        n == FirstSpam(reports, spam)
    IN  IF DOMAIN data = {} THEN NotCalled
        ELSE [data |-> data, called |-> TRUE, reports |-> reports,
              checked |-> IF n > 0 THEN SubSeq(reports, 1, n) ELSE reports,
              queue |-> IF n > 0 /\ raise_if_spam THEN <<reports>> ELSE <<>>,
              err |-> IF n > 0 /\ raise_if_spam THEN MsgSpam ELSE NoError]

\* CollectionAkismetSpamValidator.__call__(attrs): spam is the set of
\* properties whose report answers comment_check() with True, raise_if_spam
\* the 'akismet-collection-action' switch.
AkismetCall(fields, attrs, spam, raise_if_spam) ==
    LET data == [p \in DOMAIN attrs \cap fields |-> attrs[p]]
        reports == GetCollectionAkismetReports(data)
        n == FirstSpam(reports, spam)
    IN  IF DOMAIN data = {} THEN NotCalled
        ELSE [data |-> data, called |-> TRUE, reports |-> reports,
              checked |-> IF n > 0 THEN SubSeq(reports, 1, n) ELSE reports,
              queue |-> IF n > 0 /\ raise_if_spam THEN <<reports>> ELSE <<>>,
              err |-> IF n > 0 /\ raise_if_spam THEN MsgSpam ELSE NoError]

\* The validator run on its own over a change-set.
ValidateSpam ==
    /\ Imported
    /\ Len(tasks) < MaxTasks
    /\ \E attrs \in Dicts(AttrFields, AttrValues),
          spam \in SUBSET ToSet(ReportProperties),
          gate \in BOOLEAN :
          LET v == Validator("CollectionSerializer", "Akismet")
              out == AkismetCall(v.fields, attrs, spam, gate)
          IN  /\ req' = [op |-> "validate_spam", attrs |-> attrs,
                         spam |-> spam, gate |-> gate]
              /\ resp' = out
              /\ tasks' = tasks \o out.queue
    /\ UNCHANGED <<meta, collections, rows>>

\* A worker of the task queue takes the oldest payload and stores the reports.
SaveAkismetReport ==
    /\ tasks # <<>>
    /\ tasks' = Tail(tasks)
    /\ UNCHANGED <<meta, collections, rows, req, resp>>

\* ------------------------------------------------------ field validators

Space == " "
NameChars == {Space, "a", "x"}
SlugChars == {"a", "B", "x", "1", "_", "-", Space, "!"}
Letters == {"a", "B", "x"}
Digits == {"1"}
Locales == {"en-US", "fr"}

TextsOver(chars, lo, hi) == UNION {[1..k -> chars] : k \in lo..hi}

\* DeniedName rows
DeniedNames == {<<"x">>, <<"x", "!">>}

\* DeniedName.blocked(name)
Blocked(name) == name \in DeniedNames

RECURSIVE LStrip(_)
LStrip(s) == IF s # <<>> /\ Head(s) = Space THEN LStrip(Tail(s)) ELSE s

RECURSIVE RStrip(_)
RStrip(s) ==
    IF s # <<>> /\ s[Len(s)] = Space THEN RStrip(SubSeq(s, 1, Len(s) - 1)) ELSE s

\* str.strip()
Strip(s) == RStrip(LStrip(s))

Text(s) == [dict |-> FALSE, text |-> s]
Dict(items) == [dict |-> TRUE, items |-> items]
Raise(msg) == [err |-> msg, value |-> None]
Return(value) == [err |-> NoError, value |-> value]

Min(S) == CHOOSE i \in S : \A j \in S : i <= j

\* Faulty variant of validate_name: it checks only the first entry of a mapping.
RECURSIVE ValidateNameFirstOnly(_)
ValidateNameFirstOnly(value) ==
    IF value.dict
    THEN IF value.items = <<>> THEN Return(value)
         ELSE LET r == ValidateNameFirstOnly(value.items[1].value)
              IN  IF r.err # NoError THEN r ELSE Return(value)
    ELSE IF Strip(value.text) = <<>> THEN Raise(MsgNameEmpty)
    ELSE IF Blocked(value.text) THEN Raise(MsgNameDenied)
    ELSE Return(value)

\* CollectionSerializer.validate_name(value): the dict comprehension visits
\* the entries in the mapping's order and the first raise leaves it.
RECURSIVE ValidateName(_)
ValidateName(value) ==
    IF value.dict
    THEN LET sub == [i \in DOMAIN value.items |->
                        ValidateName(value.items[i].value)]
             bad == {i \in DOMAIN sub : sub[i].err # NoError}
         IN  IF bad # {} THEN Raise(sub[Min(bad)].err)
             ELSE Return(Dict([i \in DOMAIN value.items |->
                                  [locale |-> value.items[i].locale,
                                   value |-> sub[i].value]]))
    ELSE IF Strip(value.text) = <<>> THEN Raise(MsgNameEmpty)
    ELSE IF Blocked(value.text) THEN Raise(MsgNameDenied)
    ELSE Return(value)

LowerChar(c) == IF c = "B" THEN "b" ELSE c

\* slug_validator(s, lower=..., message=...): TRUE when s passes
SlugValidator(s, lower) ==
    \A i \in DOMAIN s :
        /\ s[i] \in Letters \cup Digits \cup {"_", "-"}
        /\ lower => LowerChar(s[i]) = s[i]

\* Faulty variant of validate_slug: slug_validator's lower is left at its
\* default.
ValidateSlugLower(value) ==
    IF ~SlugValidator(value, TRUE) THEN Raise(MsgSlugGrammar)
    ELSE IF Blocked(value) THEN Raise(MsgSlugDenied)
    ELSE Return(value)

\* CollectionSerializer.validate_slug(value)
ValidateSlug(value) ==
    IF ~SlugValidator(value, FALSE) THEN Raise(MsgSlugGrammar)
    ELSE IF Blocked(value) THEN Raise(MsgSlugDenied)
    ELSE Return(value)

NameTexts == {Text(s) : s \in TextsOver(NameChars, 0, MaxLen)}

\* the mappings over the locales, in either order of their entries
NameDicts ==
    {Dict(<<>>)}
    \cup {Dict(<<[locale |-> l, value |-> t]>>) : l \in Locales, t \in NameTexts}
    \cup {Dict(<<[locale |-> l[1], value |-> t[1]], [locale |-> l[2], value |-> t[2]]>>) :
             l \in {m \in Locales \X Locales : m[1] # m[2]},
             t \in NameTexts \X NameTexts}

NameValues == NameTexts \cup NameDicts

SlugValues == TextsOver(SlugChars, 1, MaxLen)

\* One field validator applied to one submitted value.
ValidateNameCall ==
    /\ Imported
    /\ req = Idle
    /\ \E value \in NameValues :
          /\ req' = [op |-> "validate_name", value |-> value]
          /\ resp' = ValidateName(value)
    /\ UNCHANGED <<meta, collections, rows, tasks>>

ValidateSlugCall ==
    /\ Imported
    /\ req = Idle
    /\ \E value \in SlugValues :
          /\ req' = [op |-> "validate_slug", value |-> value]
          /\ resp' = ValidateSlug(value)
    /\ UNCHANGED <<meta, collections, rows, tasks>>

\* ------------------------------------------------- serializer validation

\* UniqueTogetherValidator(queryset, fields, message) called on attrs: on an
\* update (instance > 0) a field that attrs lacks takes the instance's value
\* and the instance itself is left out of the queryset.
UniqueTogetherValidator(v, queryset, attrs, instance) ==
    LET value(f) == IF f \in DOMAIN attrs THEN attrs[f] ELSE queryset[instance][f]
    IN  IF \E i \in DOMAIN queryset :
               /\ i # instance
               /\ \A f \in v.fields : queryset[i][f] = value(f)
        THEN v.message
        ELSE NoError

SpamAttrs(attrs) == [p \in DOMAIN attrs \cap AttrFields |-> "text"]

\* Serializer.run_validators: every validator of Meta.validators is called
\* and the messages of those that raise are collected.
RunValidators(cls, queryset, attrs, instance, spam, gate) ==
    LET vs == meta[cls].validators
        out == [i \in DOMAIN vs |->
                   IF vs[i].kind = "UniqueTogether"
                   THEN [err |-> UniqueTogetherValidator(vs[i], queryset, attrs, instance),
                         queue |-> <<>>]
                   ELSE LET a == AkismetCall(vs[i].fields, SpamAttrs(attrs), spam, gate)
                        IN  [err |-> a.err, queue |-> a.queue]]
    IN  [errs |-> {out[i].err : i \in DOMAIN out} \ {NoError},
         queue |-> IF \E i \in DOMAIN out : out[i].queue # <<>>
                   THEN out[CHOOSE i \in DOMAIN out : out[i].queue # <<>>].queue
                   ELSE <<>>]

\* ------------------------------------------------------------- collections

Users == {"u1", "u2"}
SlugChoices == {<<"a">>, <<"B">>, <<"!">>}

\* POST of a collection by user: the name (always given, it is required) and
\* the slug pass their field validators, then Meta.validators run over the
\* attrs, where author is the requesting user, then the row is saved.
CreateCollection ==
    /\ Imported
    /\ Len(collections) < MaxCollections
    /\ Len(tasks) < MaxTasks
    /\ \E user \in Users, slug \in SlugChoices, flagged \in BOOLEAN, gate \in BOOLEAN :
          LET name == ValidateName(Text(<<"a">>))
              s == ValidateSlug(slug)
              fieldErrs == {name.err, s.err} \ {NoError}
              attrs == [name |-> name.value, slug |-> s.value, author |-> user]
              v == RunValidators("CollectionSerializer", collections, attrs, 0,
                                 IF flagged THEN {"name"} ELSE {}, gate)
          IN  /\ req' = [op |-> "create_collection", user |-> user, slug |-> slug,
                         flagged |-> flagged, gate |-> gate]
              /\ IF fieldErrs # {}
                 THEN /\ resp' = [errs |-> fieldErrs]
                      /\ UNCHANGED <<collections, tasks>>
                 ELSE /\ resp' = [errs |-> v.errs]
                      /\ tasks' = tasks \o v.queue
                      /\ collections' =
                             IF v.errs = {}
                             THEN Append(collections, [slug |-> slug, author |-> user])
                             ELSE collections
    /\ UNCHANGED <<meta, rows>>

\* PATCH of a collection's slug by its author: attrs holds the slug alone.
UpdateSlug ==
    /\ Imported
    /\ \E id \in DOMAIN collections, slug \in SlugChoices :
          LET s == ValidateSlug(slug)
              attrs == [slug |-> s.value]
              v == RunValidators("CollectionSerializer", collections, attrs, id,
                                 {}, FALSE)
          IN  /\ req' = [op |-> "update_slug", id |-> id, slug |-> slug]
              /\ IF s.err # NoError
                 THEN /\ resp' = [errs |-> {s.err}]
                      /\ UNCHANGED collections
                 ELSE /\ resp' = [errs |-> v.errs]
                      /\ collections' =
                             IF v.errs = {}
                             THEN [collections EXCEPT ![id].slug = slug]
                             ELSE collections
    /\ UNCHANGED <<meta, rows, tasks>>

\* ------------------------------------------------------- collection add-ons

Addons == {"addon1", "addon2"}
ViewCollections == {"c1", "c2"}
Notes == {"note"}
MsgRequired == "This field is required."
DownloadsShim == "collections-downloads-shim"
Gates == {DownloadsShim, "other-gate"}

\* ThisCollectionDefault: set_context keeps view.get_collection(), the call
\* returns it.
ThisCollectionDefault(view) == view.collection

Without(data, key) == [k \in DOMAIN data \ {key} |-> data[k]]

\* Faulty variant of validate: the addon is not dropped.
ValidateKeepAddon(partial, data) == data

\* CollectionAddonSerializer.validate(data)
Validate(partial, data) == IF partial THEN Without(data, "addon") ELSE data

\* to_internal_value: the submitted fields under their source names.
InternalValue(submitted) ==
    [k \in {IF f = "notes" THEN "comments" ELSE f : f \in DOMAIN submitted} |->
        IF k = "comments" THEN submitted["notes"] ELSE submitted[k]]

With(data, key, value) ==
    [k \in DOMAIN data \cup {key} |-> IF k = key THEN value ELSE data[k]]

Submissions == Dicts({"addon"}, Addons) \cup Dicts({"notes"}, Notes)
               \cup {With(d, "notes", n) : d \in [{"addon"} -> Addons], n \in Notes}

\* POST of an add-on to the collection of the view.
AddAddon ==
    /\ Imported
    /\ Len(rows) < MaxRows
    /\ \E c \in ViewCollections, submitted \in Submissions :
          LET view == [collection |-> c]
              attrs == With(InternalValue(submitted), "collection",
                            ThisCollectionDefault(view))
              v == RunValidators("CollectionAddonSerializer", rows, attrs, 0, {}, FALSE)
              data == Validate(FALSE, attrs)
          IN  /\ req' = [op |-> "add_addon", collection |-> c, submitted |-> submitted]
              /\ IF "addon" \notin DOMAIN submitted
                 THEN /\ resp' = [errs |-> {MsgRequired}, data |-> <<>>]
                      /\ UNCHANGED rows
                 ELSE IF v.errs # {}
                 THEN /\ resp' = [errs |-> v.errs, data |-> <<>>]
                      /\ UNCHANGED rows
                 ELSE /\ resp' = [errs |-> {}, data |-> data]
                      /\ rows' = Append(rows,
                             [addon |-> data.addon, collection |-> data.collection,
                              comments |-> IF "comments" \in DOMAIN data
                                           THEN data.comments ELSE None])
    /\ UNCHANGED <<meta, collections, tasks>>

\* ModelSerializer.update: every key of the validated data is set on the row.
Updated(row, data) == [k \in DOMAIN row |-> IF k \in DOMAIN data THEN data[k] ELSE row[k]]

\* PATCH (partial) or PUT of the row id, reached under its collection's URL.
UpdateAddon ==
    /\ Imported
    /\ \E id \in DOMAIN rows, partial \in BOOLEAN, submitted \in Submissions :
          LET view == [collection |-> rows[id].collection]
              attrs == IF partial THEN InternalValue(submitted)
                       ELSE With(InternalValue(submitted), "collection",
                                 ThisCollectionDefault(view))
              v == RunValidators("CollectionAddonSerializer", rows, attrs, id, {}, FALSE)
              data == Validate(partial, attrs)
          IN  /\ req' = [op |-> "update_addon", id |-> id, partial |-> partial,
                         submitted |-> submitted]
              /\ IF ~partial /\ "addon" \notin DOMAIN submitted
                 THEN /\ resp' = [errs |-> {MsgRequired}, data |-> <<>>]
                      /\ UNCHANGED rows
                 ELSE IF v.errs # {}
                 THEN /\ resp' = [errs |-> v.errs, data |-> <<>>]
                      /\ UNCHANGED rows
                 ELSE /\ resp' = [errs |-> {}, data |-> data]
                      /\ rows' = [rows EXCEPT ![id] = Updated(rows[id], data)]
    /\ UNCHANGED <<meta, collections, tasks>>

\* is_gate_active(request, name)
IsGateActive(request, name) == name \in request.gates

\* super().to_representation(instance): collection is a HiddenField and is
\* not rendered.
BaseRepresentation(instance) ==
    [addon |-> instance.addon, notes |-> instance.comments]

\* Faulty variant of to_representation: the shim is added for every request.
ToRepresentationAnyRequest(instance, request) ==
    LET out == BaseRepresentation(instance)
    IN  IF request.present THEN With(out, "downloads", 0) ELSE out

\* CollectionAddonSerializer.to_representation(instance): request is
\* self.context.get('request'), with present FALSE when there is none.
ToRepresentation(instance, request) ==
    LET out == BaseRepresentation(instance)
    IN  IF request.present /\ IsGateActive(request, DownloadsShim)
        THEN With(out, "downloads", 0)
        ELSE out

Requests == {[present |-> FALSE, gates |-> {}]}
            \cup {[present |-> TRUE, gates |-> g] : g \in SUBSET Gates}

\* GET of the row id.
RetrieveAddon ==
    /\ Imported
    /\ \E id \in DOMAIN rows, request \in Requests :
          /\ req' = [op |-> "to_representation", id |-> id, request |-> request]
          /\ resp' = [out |-> ToRepresentation(rows[id], request)]
    /\ UNCHANGED <<meta, collections, rows, tasks>>

\* ----------------------------------------------------------- specifications

Init ==
    /\ meta = <<>>
    /\ collections = <<>>
    /\ rows = <<>>
    /\ tasks = <<>>
    /\ req = Idle
    /\ resp = Idle

ImportModule ==
    \/ DefineCollectionSerializer
    \/ DefineCollectionAddonSerializer
    \/ DefineCollectionWithAddonsSerializer

NextSpam ==
    \/ ImportModule
    \/ ValidateSpam
    \/ SaveAkismetReport

SpecSpam == Init /\ [][NextSpam]_vars

NextFields ==
    \/ ImportModule
    \/ ValidateNameCall
    \/ ValidateSlugCall

SpecFields == Init /\ [][NextFields]_vars

NextCollections ==
    \/ ImportModule
    \/ CreateCollection
    \/ UpdateSlug
    \/ SaveAkismetReport

SpecCollections == Init /\ [][NextCollections]_vars

NextAddons ==
    \/ ImportModule
    \/ AddAddon
    \/ UpdateAddon
    \/ RetrieveAddon

SpecAddons == Init /\ [][NextAddons]_vars

\* Every operation together.
Next ==
    \/ ImportModule
    \/ ValidateSpam
    \/ SaveAkismetReport
    \/ ValidateNameCall
    \/ ValidateSlugCall
    \/ CreateCollection
    \/ UpdateSlug
    \/ AddAddon
    \/ UpdateAddon
    \/ RetrieveAddon

Spec == Init /\ [][Next]_vars


\* ------------------------------------------------------------------ claims

SpamCall == req.op = "validate_spam"

\* the configured fields the change-set holds
Submitted == DOMAIN req.attrs \cap {"name", "description"}

\* at least one report of the call answers comment_check() as spam
Flagged == \E i \in DOMAIN resp.reports : resp.reports[i] \in req.spam

C2_RaisesIffFlaggedAndGate ==
    SpamCall =>
        /\ resp.err \in {MsgSpam, NoError}
        /\ resp.err = MsgSpam <=> (Flagged /\ req.gate)

C2_Witness == SpamCall /\ Flagged /\ req.gate /\ resp.err = MsgSpam

\* C3: with none of name, description in the attrs the validator does nothing
\* (no call of the spam check, no task, no error), and the spam check only ever
\* gets the configured fields that the attrs hold.
C3_NoOpWithoutConfiguredFields ==
    SpamCall =>
        /\ Submitted = {} =>
              /\ ~resp.called
              /\ resp.checked = <<>>
              /\ resp.queue = <<>>
              /\ resp.err = NoError
        /\ resp.called =>
              /\ DOMAIN resp.data = Submitted
              /\ \A p \in Submitted : resp.data[p] = req.attrs[p]
              /\ ToSet(resp.reports) \subseteq Submitted
              /\ ToSet(resp.checked) \subseteq Submitted

C3_Witness ==
    /\ SpamCall
    /\ DOMAIN req.attrs = {"slug"}
    /\ req.spam # {}
    /\ req.gate
    /\ ~resp.called

\* a collection's (slug, author) is no other collection's
UniqueSlugAuthor ==
    \A i, j \in DOMAIN collections :
        (/\ collections[i].slug = collections[j].slug
         /\ collections[i].author = collections[j].author) => i = j

\* a step of a request, not of the task worker
RequestStep == Len(tasks') >= Len(tasks)

SlugAccepted ==
    MsgSlugGrammar \notin resp'.errs /\ MsgSlugDenied \notin resp'.errs

CreateStep ==
    (RequestStep /\ req'.op = "create_collection") =>
        LET new == [slug |-> req'.slug, author |-> req'.user]
            clash == \E i \in DOMAIN collections : collections[i] = new
        IN  /\ clash => MsgSlugInUse \in resp'.errs /\ collections' = collections
            /\ (~clash /\ SlugAccepted /\ MsgSpam \notin resp'.errs) =>
                   /\ resp'.errs = {}
                   /\ collections' = Append(collections, new)

UpdateSlugStep ==
    (RequestStep /\ req'.op = "update_slug") =>
        LET id == req'.id
            clash == \E i \in DOMAIN collections :
                        /\ i # id
                        /\ collections[i].slug = req'.slug
                        /\ collections[i].author = collections[id].author
        IN  /\ clash => MsgSlugInUse \in resp'.errs /\ collections' = collections
            /\ (~clash /\ SlugAccepted) =>
                   /\ resp'.errs = {}
                   /\ collections' = [collections EXCEPT ![id].slug = req'.slug]

\* C4: no two collections ever share (slug, author); a create or a slug update
\* that would duplicate an existing pair is rejected with the 'already in use'
\* message and changes no collection, and the same slug under another author
\* is accepted.
C4_SlugAuthorUnique ==
    []UniqueSlugAuthor /\ [][CreateStep /\ UpdateSlugStep]_vars

C4_Witness ==
    /\ req.op = "create_collection"
    /\ resp.errs = {}
    /\ \E i \in DOMAIN collections :
          /\ i # Len(collections)
          /\ collections[i].slug = req.slug
          /\ collections[i].author # req.user

UniqueAddonCollection ==
    \A i, j \in DOMAIN rows :
        (/\ rows[i].addon = rows[j].addon
         /\ rows[i].collection = rows[j].collection) => i = j

AddAddonStep ==
    (req'.op = "add_addon" /\ "addon" \in DOMAIN req'.submitted) =>
        LET present == \E i \in DOMAIN rows :
                          /\ rows[i].addon = req'.submitted.addon
                          /\ rows[i].collection = req'.collection
        IN  present => /\ resp'.errs = {MsgAddonInCollection}
                       /\ rows' = rows

\* C5: no collection ever holds the same add-on twice; adding an add-on that
\* the view's collection already holds is rejected with 'This add-on already
\* belongs to the collection' and leaves the rows as they were.
C5_AddonCollectionUnique ==
    []UniqueAddonCollection /\ [][AddAddonStep]_vars

C5_Witness ==
    /\ req.op = "add_addon"
    /\ resp.errs = {MsgAddonInCollection}
    /\ \E i \in DOMAIN rows :
          rows[i].addon = req.submitted.addon /\ rows[i].collection = req.collection

ValidatedData ==
    (req.op \in {"update_addon", "add_addon"} /\ resp.errs = {}) =>
        LET sub == req.submitted
            partial == req.op = "update_addon" /\ req.partial
        IN  /\ partial => "addon" \notin DOMAIN resp.data
            /\ ~partial => resp.data.addon = sub.addon
            /\ "notes" \in DOMAIN sub =>
                   /\ "comments" \in DOMAIN resp.data
                   /\ resp.data.comments = sub.notes

PartialUpdateStep ==
    (req'.op = "update_addon" /\ req'.partial) =>
        LET id == req'.id
        IN  /\ rows'[id].addon = rows[id].addon
            /\ (resp'.errs = {} /\ "notes" \in DOMAIN req'.submitted) =>
                   rows'[id].comments = req'.submitted.notes

NameCall == req.op = "validate_name"

\* the texts of a name value, in the order validate_name meets them
Entries(value) ==
    IF value.dict THEN [i \in DOMAIN value.items |-> value.items[i].value.text]
    ELSE <<value.text>>

IsEmpty(t) == \A i \in DOMAIN t : t[i] = Space
IsDenied(t) == t \in DeniedNames

\* C7, as stated: any one empty or whitespace-only entry gives 'Name cannot be
\* empty.', any one denylisted entry gives 'This name cannot be used.', and
\* otherwise the value comes back unchanged.
C7_AnyEntryDecidesMessage ==
    NameCall =>
        LET e == Entries(req.value)
        IN  /\ (\E i \in DOMAIN e : IsEmpty(e[i])) => resp.err = MsgNameEmpty
            /\ (\E i \in DOMAIN e : IsDenied(e[i])) => resp.err = MsgNameDenied
            /\ (\A i \in DOMAIN e : ~IsEmpty(e[i]) /\ ~IsDenied(e[i])) =>
                   resp.err = NoError /\ resp.value = req.value

\* C7, amended: every entry is checked by the same rules; when some entry is
\* empty, whitespace-only or denylisted the call fails with the message of the
\* first such entry in the mapping's order ('Name cannot be empty.' for an
\* empty one, 'This name cannot be used.' for a denylisted one), and otherwise
\* the value comes back unchanged.
C7_FirstBadEntryDecidesMessage ==
    NameCall =>
        LET e == Entries(req.value)
            bad == {i \in DOMAIN e : IsEmpty(e[i]) \/ IsDenied(e[i])}
        IN  IF bad = {}
            THEN resp.err = NoError /\ resp.value = req.value
            ELSE LET first == CHOOSE i \in bad : \A j \in bad : i <= j
                 IN  resp.err = IF IsEmpty(e[first]) THEN MsgNameEmpty
                                ELSE MsgNameDenied

C7_Witness ==
    /\ NameCall
    /\ req.value.dict
    /\ Len(req.value.items) = 2
    /\ IsDenied(req.value.items[1].value.text)
    /\ IsEmpty(req.value.items[2].value.text)
    /\ resp.err = MsgNameDenied

SlugCall == req.op = "validate_slug"

InGrammar(s) == \A i \in DOMAIN s : s[i] \in {"a", "B", "x", "1", "_", "-"}

\* C8: validate_slug returns the slug unchanged exactly when it is made of
\* letters, digits, underscores and hyphens only and is not denylisted; a slug
\* outside the grammar gets the grammar message, denylisted or not, and a
\* well-formed denylisted slug gets 'This custom URL cannot be used.'
C8_SlugGrammarThenDenylist ==
    SlugCall =>
        /\ resp.err = NoError <=> (InGrammar(req.value) /\ ~IsDenied(req.value))
        /\ resp.err = NoError => resp.value = req.value
        /\ ~InGrammar(req.value) => resp.err = MsgSlugGrammar
        /\ (InGrammar(req.value) /\ IsDenied(req.value)) => resp.err = MsgSlugDenied

C8_Witness ==
    /\ SlugCall
    /\ req.value = <<"B", "-">>
    /\ resp.err = NoError
    /\ resp.value = <<"B", "-">>

\* C9: to_representation adds downloads = 0 exactly when the context holds a
\* request for which the 'collections-downloads-shim' gate is active; the
\* other fields of the representation are the same either way.
C9_DownloadsShim ==
    req.op = "to_representation" =>
        LET out == resp.out
            shim == req.request.present
                    /\ "collections-downloads-shim" \in req.request.gates
        IN  /\ "downloads" \in DOMAIN out <=> shim
            /\ shim => out["downloads"] = 0
            /\ DOMAIN out \ {"downloads"} = {"addon", "notes"}
            /\ out["addon"] = rows[req.id].addon
            /\ out["notes"] = rows[req.id].comments

C9_Witness ==
    /\ req.op = "to_representation"
    /\ req.request.present
    /\ req.request.gates = {"collections-downloads-shim"}
    /\ DOMAIN resp.out = {"addon", "notes", "downloads"}
    /\ resp.out["downloads"] = 0

Writable == {"name", "description", "slug", "public", "default_locale"}

\* C10: for CollectionSerializer and CollectionWithAddonsSerializer the
\* read-only fields are exactly the declared fields minus the writable ones
\* (name, description, slug, public, default_locale): the two sets are
\* disjoint and together make up the declared fields, and addons is read-only.
C10_ReadOnlyIsFieldsMinusWritable ==
    \A cls \in DOMAIN meta \cap {"CollectionSerializer", "CollectionWithAddonsSerializer"} :
        LET m == meta[cls]
        IN  /\ ToSet(m.writeable_fields) = Writable
            /\ m.read_only_fields = ToSet(m.fields) \ Writable
            /\ m.read_only_fields \cap Writable = {}
            /\ m.read_only_fields \cup Writable = ToSet(m.fields)
            /\ cls = "CollectionWithAddonsSerializer" =>
                   "addons" \in m.read_only_fields

C10_Witness ==
    /\ "CollectionWithAddonsSerializer" \in DOMAIN meta
    /\ "addons" \in ToSet(meta["CollectionWithAddonsSerializer"].fields)
    /\ "addons" \in meta["CollectionWithAddonsSerializer"].read_only_fields

=============================================================================
